---------------------------- MODULE Spec2Model ----------------------------
(***************************************************************************)
(* YouTube-Insight-Bot: the document Q&A chatbot (RAG_chatbot.py) and the  *)
(* transcript downloader (youtube_transcript.py) as state machines.        *)
(*                                                                         *)
(* Five specifications share the module; each drives one part of the       *)
(* program and leaves the variables of the other parts at their idle       *)
(* values:                                                                 *)
(*   SpecRerank  SimpleRAGChatbot.rerank_results called on its own         *)
(*   SpecBot     a SimpleRAGChatbot object driven through its methods      *)
(*   SpecMain    RAG_chatbot.main, the interactive command line            *)
(*   SpecCli     youtube_transcript.main                                   *)
(*   SpecTime    youtube_transcript.format_time / the subtitle time line   *)
(***************************************************************************)
EXTENDS Integers, Sequences, FiniteSets, TLC

VARIABLES
    \* ---- youtube_transcript.main
    args,        \* parsed command line: [url, language, format, output]
    cpc,         \* position in main: "start","resolved","fetched","done","crashed"
    video_id,    \* local video_id of main (NoValue before line 89)
    api_calls,   \* the calls made to YouTubeTranscriptApi.get_transcript
    fetched,     \* what the captioning service did when called
    transcript,  \* local transcript of main: NoList or ListOf(entries)
    files,       \* the file system: path -> content, or Absent
    stdout,      \* the messages printed so far
    stderr,      \* what the interpreter wrote about an uncaught exception
    cli_exit,    \* Running, or Exited(c) with the process's exit status c
    \* ---- format_time
    t_start,     \* an entry's start, in milliseconds
    t_dur,       \* an entry's duration, in milliseconds
    t_line,      \* the subtitle time line computed for it, NoValue before
    \* ---- SimpleRAGChatbot.rerank_results
    rr_query, rr_results, rr_k,   \* the arguments
    rr_env,      \* what the reranking capability does on this call
    rr_ret,      \* what the call returned, NoReturn before the call
    \* ---- SimpleRAGChatbot and RAG_chatbot.main
    pc,          \* position of the driver
    vectorstore, \* self.vectorstore: None or an index
    qa_chain,    \* self.qa_chain: None or a chain
    disk,        \* the faiss_index directory: "absent" (or empty), "saved", "corrupt"
    history,     \* self.memory.chat_memory.messages
    user_input,  \* the line read / the argument of chat
    response,    \* the value the last chat call returned
    success,     \* the value the last load_document call returned
    env,         \* what the external capabilities did during the last call
    calls,       \* the capabilities invoked during the last call, in order
    arg_file,    \* main's args.file
    printed,     \* the lines main printed during its last step
    exit_code    \* Running, or Exited(c) with the process's exit code c

cliVars  == <<args, cpc, video_id, api_calls, fetched, transcript, files, stdout,
              stderr, cli_exit>>
timeVars == <<t_start, t_dur, t_line>>
rrVars   == <<rr_query, rr_results, rr_k, rr_env, rr_ret>>
botVars  == <<pc, vectorstore, qa_chain, disk, history, user_input, response,
              success, env, calls, arg_file, printed, exit_code>>
vars     == <<cliVars, timeVars, rrVars, botVars>>

None    == "None"
NoValue == "NoValue"
Absent  == "Absent"

\* a Python value that is None or a list
NoList      == [some |-> FALSE, val |-> <<>>]
ListOf(v)   == [some |-> TRUE, val |-> v]
\* bool(x) of such a value
Truthy(x)   == x.some /\ x.val # <<>>

\* a process's exit status: none while it runs
Running     == <<>>
Exited(c)   == <<c>>

Min(a, b) == IF a < b THEN a ELSE b
Max(a, b) == IF a > b THEN a ELSE b

(***************************************************************************)
(* Python's str operations, on strings.                                    *)
(***************************************************************************)

\* s[i] for a 1-based position i, as a one-character string
CharAt(s, i) == SubSeq(s, i, i)

\* sub in s
Contains(s, sub) ==
    \E i \in 1..(Len(s) - Len(sub) + 1) : SubSeq(s, i, i + Len(sub) - 1) = sub

\* s.find(c) for a one-character c: the first position of c in s, 0 if none
Find(s, c) ==
    IF \E i \in 1..Len(s) : CharAt(s, i) = c
    THEN CHOOSE i \in 1..Len(s) :
            /\ CharAt(s, i) = c
            /\ \A j \in 1..(i - 1) : CharAt(s, j) # c
    ELSE 0

\* s.split(c): the list of the pieces of s between the occurrences of c
RECURSIVE Split(_, _)
Split(s, c) ==
    LET i == Find(s, c)
    IN  IF i = 0 THEN <<s>>
        ELSE <<SubSeq(s, 1, i - 1)>> \o Split(SubSeq(s, i + 1, Len(s)), c)

\* s.split(c, 1): at most one cut, at the first c
Split1(s, c) ==
    LET i == Find(s, c)
    IN  IF i = 0 THEN <<s>>
        ELSE <<SubSeq(s, 1, i - 1), SubSeq(s, i + 1, Len(s))>>

\* s.replace(a, b) for one-character a
RECURSIVE Replace(_, _, _)
Replace(s, a, b) ==
    IF s = "" THEN ""
    ELSE (IF Head(s) = a THEN b ELSE Head(s)) \o Replace(Tail(s), a, b)

\* the printable ASCII characters: codes 32..95, and 97..126
AsciiLow ==
    " !\"#$%&'()*+,-./0123456789:;<=>?@ABCDEFGHIJKLMNOPQRSTUVWXYZ[\\]^_"
AsciiHigh == "abcdefghijklmnopqrstuvwxyz{|}~"

Chr(code) == IF code <= 95 THEN CharAt(AsciiLow, code - 31)
             ELSE CharAt(AsciiHigh, code - 96)

HexDigits == "0123456789abcdef"
HexUpper  == "0123456789ABCDEF"

IsHex(c) == Find(HexDigits, c) > 0 \/ Find(HexUpper, c) > 0
HexVal(c) == IF Find(HexDigits, c) > 0 THEN Find(HexDigits, c) - 1
             ELSE Find(HexUpper, c) - 1

\* urllib.parse.unquote: each %XY with X, Y hexadecimal digits becomes the
\* character of that code (printable ASCII here); any other % stays.
RECURSIVE Unquote(_)
Unquote(s) ==
    IF s = "" THEN ""
    ELSE IF /\ Head(s) = "%"
            /\ Len(s) >= 3
            /\ IsHex(CharAt(s, 2))
            /\ IsHex(CharAt(s, 3))
            /\ 16 * HexVal(CharAt(s, 2)) + HexVal(CharAt(s, 3))
                   \in (32..126) \ {96}
         THEN Chr(16 * HexVal(CharAt(s, 2)) + HexVal(CharAt(s, 3)))
                  \o Unquote(SubSeq(s, 4, Len(s)))
         ELSE Head(s) \o Unquote(Tail(s))

\* urllib.parse.urlparse(url).query: the fragment (from the first '#') is cut
\* off, and the query is what follows the first '?' of the rest.  Splitting
\* off the scheme and the netloc removes neither a '?' nor a '#'.
UrlQuery(url) ==
    LET nofrag == Split1(url, "#")[1]
        parts  == Split1(nofrag, "?")
    IN  IF Len(parts) = 2 THEN parts[2] ELSE ""

\* urllib.parse.parse_qsl(qs): the (name, value) pairs of the fields of qs, in
\* order; a field with no '=' or with a blank value is skipped, '+' reads as
\* a space and %XY escapes are decoded, in names and in values.
RECURSIVE QslOfFields(_)
QslOfFields(fields) ==
    IF fields = <<>> THEN <<>>
    ELSE LET nv == Split1(Head(fields), "=")
         IN  (IF Head(fields) # "" /\ Len(nv) = 2 /\ Len(nv[2]) > 0
              THEN << <<Unquote(Replace(nv[1], "+", " ")),
                        Unquote(Replace(nv[2], "+", " "))>> >>
              ELSE <<>>)
             \o QslOfFields(Tail(fields))

ParseQsl(qs) == IF qs = "" THEN <<>> ELSE QslOfFields(Split(qs, "&"))

\* urllib.parse.parse_qs(qs)[name]: the list of the values of name, in order;
\* the empty list stands for a missing key.
RECURSIVE ValuesOf(_, _)
ValuesOf(pairs, name) ==
    IF pairs = <<>> THEN <<>>
    ELSE (IF Head(pairs)[1] = name THEN <<Head(pairs)[2]>> ELSE <<>>)
         \o ValuesOf(Tail(pairs), name)

ParseQs(qs, name) == ValuesOf(ParseQsl(qs), name)

(***************************************************************************)
(* youtube_transcript.extract_video_id                                     *)
(***************************************************************************)

ShortMarker == "youtu.be"
FullMarker  == "youtube.com/watch"

Returned(v) == [ok |-> TRUE, val |-> v]
Raised(e)   == [ok |-> FALSE, val |-> e]

\* extract_video_id taking the second piece of the '/' split, not the last
extract_video_id_second(youtube_url) ==
    IF Contains(youtube_url, ShortMarker)
    THEN LET segs == Split(youtube_url, "/")
         IN  Returned(Split(segs[Min(2, Len(segs))], "?")[1])
    ELSE IF Contains(youtube_url, FullMarker)
    THEN LET vs == ParseQs(UrlQuery(youtube_url), "v")
         IN  IF vs = <<>> THEN Raised("KeyError") ELSE Returned(vs[1])
    ELSE Returned(youtube_url)

extract_video_id(youtube_url) ==
    IF Contains(youtube_url, ShortMarker)
    THEN LET segs == Split(youtube_url, "/")
         IN  Returned(Split(segs[Len(segs)], "?")[1])
    ELSE IF Contains(youtube_url, FullMarker)
    THEN LET vs == ParseQs(UrlQuery(youtube_url), "v")
         IN  IF vs = <<>> THEN Raised("KeyError") ELSE Returned(vs[1])
    ELSE Returned(youtube_url)

(***************************************************************************)
(* Python's float: IEEE 754 binary64, round to nearest, ties to even.      *)
(* A positive float is [m, e]: m its 53 significand bits, most significant *)
(* (a 1) first, and its value is m * 2^e; zero is FZero.  Integers wider   *)
(* than 31 bits are kept as bit sequences, most significant bit first.     *)
(***************************************************************************)

MantBits == 53
\* zero bits appended to a dividend so that the quotient keeps a guard bit
PadBits == 64

FZero == [m |-> <<>>, e |-> 0]

Zeros(n) == [i \in 1..n |-> 0]

RECURSIVE BitsOf(_)
BitsOf(n) == IF n = 0 THEN <<>> ELSE Append(BitsOf(n \div 2), n % 2)

RECURSIVE IntOf(_)
IntOf(b) == IF b = <<>> THEN 0
            ELSE 2 * IntOf(SubSeq(b, 1, Len(b) - 1)) + b[Len(b)]

\* b without its leading zero bits
Strip(b) ==
    IF \A i \in 1..Len(b) : b[i] = 0 THEN <<>>
    ELSE SubSeq(b, CHOOSE i \in 1..Len(b) :
                       b[i] = 1 /\ \A j \in 1..(i - 1) : b[j] = 0,
                Len(b))

\* Long division by a small d of the bits b that follow a running remainder
\* r0: the quotient bits of b and the remainder left.  The halves of b are
\* divided one after the other, the left one's remainder entering the right.
RECURSIVE DivFrom(_, _, _)
DivFrom(b, d, r0) ==
    IF b = <<>> THEN [q |-> <<>>, r |-> r0]
    ELSE IF Len(b) = 1
    THEN [q |-> <<(2 * r0 + b[1]) \div d>>, r |-> (2 * r0 + b[1]) % d]
    ELSE LET h  == Len(b) \div 2
             lo == DivFrom(SubSeq(b, 1, h), d, r0)
             hi == DivFrom(SubSeq(b, h + 1, Len(b)), d, lo.r)
         IN  [q |-> lo.q \o hi.q, r |-> hi.r]

\* long division of the integer b by a small d: quotient bits and remainder
DivBits(b, d) == DivFrom(b, d, 0)

Reverse(b) == [i \in 1..Len(b) |-> b[Len(b) + 1 - i]]

\* b * k + c for small k and c, on bits b given least significant first: the
\* Len(b) low bits of the result and the carry out of them
RECURSIVE MulFrom(_, _, _)
MulFrom(b, k, c) ==
    IF b = <<>> THEN [bits |-> <<>>, carry |-> c]
    ELSE IF Len(b) = 1
    THEN [bits |-> <<(b[1] * k + c) % 2>>, carry |-> (b[1] * k + c) \div 2]
    ELSE LET h  == Len(b) \div 2
             lo == MulFrom(SubSeq(b, 1, h), k, c)
             hi == MulFrom(SubSeq(b, h + 1, Len(b)), k, lo.carry)
         IN  [bits |-> lo.bits \o hi.bits, carry |-> hi.carry]

\* the bits of b * k + c
MulCarry(b, k, c) ==
    LET p == MulFrom(Reverse(b), k, c) IN BitsOf(p.carry) \o Reverse(p.bits)

\* a + b + c for bit sequences a and b of one length, least significant bit
\* first: the sum's low bits and the carry out of them
RECURSIVE AddFrom(_, _, _)
AddFrom(a, b, c) ==
    IF a = <<>> THEN [bits |-> <<>>, carry |-> c]
    ELSE IF Len(a) = 1
    THEN [bits |-> <<(a[1] + b[1] + c) % 2>>, carry |-> (a[1] + b[1] + c) \div 2]
    ELSE LET h  == Len(a) \div 2
             lo == AddFrom(SubSeq(a, 1, h), SubSeq(b, 1, h), c)
             hi == AddFrom(SubSeq(a, h + 1, Len(a)), SubSeq(b, h + 1, Len(b)), lo.carry)
         IN  [bits |-> lo.bits \o hi.bits, carry |-> hi.carry]

\* the bits of a + b + c
AddCarry(a, b, c) ==
    LET n == Max(Len(a), Len(b))
        p == AddFrom(Reverse(Zeros(n - Len(a)) \o a),
                     Reverse(Zeros(n - Len(b)) \o b), c)
    IN  BitsOf(p.carry) \o Reverse(p.bits)

\* The float nearest to (bits + f) * 2^e, where f is 0, or some fraction in
\* (0, 1) when sticky: keep 53 significant bits, round to nearest on the
\* next bit, and on a tie (nothing set behind it) to the even significand.
Round53(bits, sticky, e) ==
    LET s == Strip(bits)
        L == Len(s)
    IN  IF L = 0 THEN FZero
        ELSE IF L <= MantBits
        THEN [m |-> s \o Zeros(MantBits - L), e |-> e - (MantBits - L)]
        ELSE LET m0 == SubSeq(s, 1, MantBits)
                 g  == s[MantBits + 1]
                 st == sticky \/ \E i \in (MantBits + 2)..L : s[i] = 1
                 up == g = 1 /\ (st \/ m0[MantBits] = 1)
                 m1 == IF up THEN AddCarry(m0, <<>>, 1) ELSE m0
             IN  IF Len(m1) > MantBits
                 THEN [m |-> SubSeq(m1, 1, MantBits), e |-> e + (L - MantBits) + 1]
                 ELSE [m |-> m1, e |-> e + (L - MantBits)]

\* the bits of the integer part, and the bits behind the binary point
IntBits(x) ==
    IF x.e >= 0 THEN x.m \o Zeros(x.e)
    ELSE IF MantBits + x.e <= 0 THEN <<>>
    ELSE SubSeq(x.m, 1, MantBits + x.e)

FracLen(x) == IF x.e >= 0 THEN 0 ELSE 0 - x.e

FracBits(x) ==
    IF x.e >= 0 THEN <<>>
    ELSE IF MantBits + x.e <= 0 THEN Zeros(0 - x.e - MantBits) \o x.m
    ELSE SubSeq(x.m, MantBits + x.e + 1, MantBits)

\* float(n / d) for naturals n and d > 0: the float nearest to the quotient,
\* which is also float("<n/d in decimal>")
FromRatio(n, d) ==
    LET dv == DivBits(BitsOf(n) \o Zeros(PadBits), d)
    IN  Round53(dv.q, dv.r # 0, 0 - PadBits)

\* x / d for an int d > 0
FDivInt(x, d) ==
    LET dv == DivBits(x.m \o Zeros(PadBits), d)
    IN  Round53(dv.q, dv.r # 0, x.e - PadBits)

\* x % d for an int d > 0 and x >= 0: the exact remainder
FMod(x, d) ==
    Round53(BitsOf(DivBits(IntBits(x), d).r) \o FracBits(x), FALSE, 0 - FracLen(x))

\* x * k for an int k > 0
FMulInt(x, k) == Round53(MulCarry(x.m, k, 0), FALSE, x.e)

\* x + y
FAdd(x, y) ==
    IF x = FZero THEN y
    ELSE IF y = FZero THEN x
    ELSE LET e == Min(x.e, y.e)
         IN  Round53(AddCarry(x.m \o Zeros(x.e - e), y.m \o Zeros(y.e - e), 0),
                     FALSE, e)

\* int(x), for x >= 0
FTrunc(x) == IntOf(IntBits(x))

\* x - int(x), for x >= 0: the fraction, exactly
FFrac(x) == Round53(FracBits(x), FALSE, 0 - FracLen(x))

(***************************************************************************)
(* youtube_transcript.format_time and the time line of format_transcript   *)
(***************************************************************************)

Digit(d) == CharAt("0123456789", d + 1)

RECURSIVE DecStr(_)
DecStr(n) == IF n < 10 THEN Digit(n) ELSE DecStr(n \div 10) \o Digit(n % 10)

RECURSIVE PadTo(_, _)
PadTo(s, w) == IF Len(s) >= w THEN s ELSE PadTo("0" \o s, w)

\* f"{n:02d}", f"{n:03d}": at least w digits, zero-filled
Fmt(n, w) == PadTo(DecStr(n), w)

format_time(seconds) ==
    LET hours        == FTrunc(FDivInt(seconds, 3600))
        minutes      == FTrunc(FDivInt(FMod(seconds, 3600), 60))
        secs         == FMod(seconds, 60)
        milliseconds == FTrunc(FMulInt(FFrac(secs), 1000))
    IN  Fmt(hours, 2) \o ":" \o Fmt(minutes, 2) \o ":" \o Fmt(FTrunc(secs), 2)
            \o "," \o Fmt(milliseconds, 3)

\* the float the captioning service gives for a time of ms milliseconds
SecondsOf(ms) == FromRatio(ms, 1000)

\* the time line of one subtitle entry (format_transcript, format "srt")
TimeLine(start_seconds, duration) ==
    LET end_seconds == FAdd(start_seconds, duration)
    IN  format_time(start_seconds) \o " --> " \o format_time(end_seconds)

(***************************************************************************)
(* youtube_transcript: get_transcript, format_transcript, save_transcript  *)
(* and main                                                                *)
(***************************************************************************)

\* number of milliseconds, below one second, the sampled times go up to
MaxMs == 3

\* A caption entry as the service gives it: text, start and (maybe) duration.
\* Times are kept as the whole milliseconds of the decimal the service sent;
\* SecondsOf gives the float the program holds.
Entry1 == [text |-> "hello", start |-> 65500, duration |-> 2250]
Entry2 == [text |-> "world", start |-> 67750, duration |-> 1001]
Entry3 == [text |-> "bye", start |-> 90061001]

Transcripts == {<<>>, <<Entry1>>, <<Entry1, Entry2, Entry3>>}

\* the exceptions YouTubeTranscriptApi.get_transcript may raise
FetchErrors == {"NoTranscriptFound", "TranscriptsDisabled", "Exception"}

\* item.get('duration', 0)
DurationOf(item) == IF "duration" \in DOMAIN item THEN item.duration ELSE 0

\* '\n'.join(texts)
RECURSIVE JoinTexts(_)
JoinTexts(items) ==
    IF items = <<>> THEN ""
    ELSE IF Len(items) = 1 THEN items[1].text
    ELSE items[1].text \o "\n" \o JoinTexts(Tail(items))

\* the "srt" branch: entries i.. of the transcript, numbered from i
RECURSIVE SrtFrom(_, _)
SrtFrom(items, i) ==
    IF items = <<>> THEN ""
    ELSE DecStr(i) \o "\n"
           \o TimeLine(SecondsOf(items[1].start), SecondsOf(DurationOf(items[1])))
           \o "\n" \o items[1].text \o "\n\n" \o SrtFrom(Tail(items), i + 1)

\* repr of the float of ms milliseconds, as json.dumps writes it: the
\* shortest decimal that reads back as the same float, which for a time of
\* whole milliseconds is its decimal without trailing zeros
RECURSIVE DropZeros(_)
DropZeros(s) ==
    IF Len(s) > 1 /\ CharAt(s, Len(s)) = "0"
    THEN DropZeros(SubSeq(s, 1, Len(s) - 1)) ELSE s

FloatRepr(ms) == DecStr(ms \div 1000) \o "." \o DropZeros(Fmt(ms % 1000, 3))

\* json.dumps(transcript, indent=2)
JsonEntry(item) ==
    "  {\n    \"text\": \"" \o item.text \o "\",\n    \"start\": "
        \o FloatRepr(item.start)
        \o (IF "duration" \in DOMAIN item
            THEN ",\n    \"duration\": " \o FloatRepr(item.duration) ELSE "")
        \o "\n  }"

RECURSIVE JsonEntries(_)
JsonEntries(items) ==
    IF Len(items) = 1 THEN JsonEntry(items[1])
    ELSE JsonEntry(items[1]) \o ",\n" \o JsonEntries(Tail(items))

JsonDump(items) ==
    IF items = <<>> THEN "[]" ELSE "[\n" \o JsonEntries(items) \o "\n]"

format_transcript(tr, format_type) ==
    IF tr = <<>> THEN ""
    ELSE IF format_type = "text" THEN JoinTexts(tr)
    ELSE IF format_type = "srt" THEN SrtFrom(tr, 1)
    ELSE IF format_type = "json" THEN JsonDump(tr)
    ELSE JoinTexts(tr)

\* get_transcript printing nothing when the call raises some other exception
get_transcript_silent(vid, o) ==
    IF o.err \in {"NoTranscriptFound", "TranscriptsDisabled"}
    THEN [ret |-> NoList, msg |-> <<"No transcript for video " \o vid>>]
    ELSE IF o.err # ""
    THEN [ret |-> ListOf(<<>>), msg |-> <<>>]
    ELSE [ret |-> ListOf(o.entries), msg |-> <<>>]

\* get_transcript: what it returns and what it prints, given what the call to
\* the captioning service did (o: the exception raised, or the entries)
get_transcript(vid, o) ==
    IF o.err = "NoTranscriptFound"
    THEN [ret |-> NoList,
          msg |-> <<"No transcript found for video " \o vid
                        \o " in the specified languages.">>]
    ELSE IF o.err = "TranscriptsDisabled"
    THEN [ret |-> NoList,
          msg |-> <<"Transcripts are disabled for video " \o vid \o ".">>]
    ELSE IF o.err # ""
    THEN [ret |-> NoList, msg |-> <<"An error occurred: " \o o.err>>]
    ELSE [ret |-> ListOf(o.entries), msg |-> <<>>]

OldContent == "<old content>"

\* save_transcript: the file after it and the message, given how the file
\* system behaves (w): open fails, the write fails after the file was opened
\* (created or truncated), or all goes well
save_transcript(content, output_file, w, fs) ==
    IF w = "open_fails"
    THEN [fs |-> fs, msg |-> "Error saving transcript: cannot open", ret |-> FALSE]
    ELSE IF w = "write_fails"
    THEN [fs  |-> [fs EXCEPT ![output_file] = ""],
          msg |-> "Error saving transcript: cannot write", ret |-> FALSE]
    ELSE [fs  |-> [fs EXCEPT ![output_file] = content],
          msg |-> "Transcript saved to " \o output_file, ret |-> TRUE]

WriteOutcomes == {"ok", "open_fails", "write_fails"}

Schemes == {"", "https://www."}
Ids     == {"abc123", "xyz789"}

ShortUrls ==
    {s \o "youtu.be/" \o id \o t :
        s \in Schemes, id \in Ids, t \in {"", "?t=5", "?t=5&u=a/b", "/"}}
    \cup {"youtu.be", "https://youtu.be/abc123?t=5"}

FullUrls ==
    {s \o "youtube.com/watch" \o q :
        s \in Schemes,
        q \in {"", "?list=PL1", "?v=", "?v", "#?v=abc123", "?v=&v=abc123",
               "?v=a%20b+c", "?%76=abc123", "?u=youtu.be/abc123",
               "?list=PL1&v=xyz789"}
              \cup {"?v=" \o id \o t :
                       id \in Ids, t \in {"", "&list=PL1", "&v=zzz", "#t=1"}}}

PlainInputs == Ids \cup {"", "a/b?c"}

Urls == ShortUrls \cup FullUrls \cup PlainInputs

\* the three inputs the specification names, and one with no video id
ExampleUrls ==
    {"https://youtu.be/abc123?t=5",
     "https://www.youtube.com/watch?v=xyz789&list=PL1",
     "xyz789",
     "https://www.youtube.com/watch?list=PL1"}

Paths == {"transcript.txt", "transcript.srt", "transcript.json", "out.txt"}

\* the command lines tried: every URL with the default options, and the
\* example URLs with every combination of the options
ArgsTried ==
    {[url |-> u, language |-> <<"en">>, format |-> "text", output |-> None] :
        u \in Urls}
    \cup [url : ExampleUrls, language : {<<"en">>, <<"de", "en">>},
          format : {"text", "srt", "json"}, output : {None, "out.txt"}]

\* what the captioning service may do when called
FetchOutcomes ==
    {[err |-> e, entries |-> <<>>] : e \in FetchErrors}
    \cup {[err |-> "", entries |-> t] : t \in Transcripts}

NotFetched == [err |-> "not called", entries |-> <<>>]

CliIdle ==
    /\ args = NoValue /\ cpc = "idle" /\ video_id = NoValue
    /\ api_calls = <<>> /\ fetched = NotFetched /\ transcript = NoList
    /\ files = NoValue /\ stdout = <<>> /\ stderr = <<>> /\ cli_exit = Running

CliInit ==
    /\ args \in ArgsTried
    /\ cpc = "start"
    /\ video_id = NoValue
    /\ api_calls = <<>>
    /\ fetched = NotFetched
    /\ transcript = NoList
    /\ files \in {[p \in Paths |-> Absent], [p \in Paths |-> OldContent]}
    /\ stdout = <<>>
    /\ stderr = <<>>
    /\ cli_exit = Running

\* main, lines 88-90: the KeyError of extract_video_id is not caught, so the
\* interpreter prints the traceback and exits with status 1
CliResolve ==
    /\ UNCHANGED <<timeVars, rrVars, botVars>>
    /\ cpc = "start"
    /\ LET r == extract_video_id(args.url)
       IN  IF r.ok
           THEN /\ video_id' = r.val
                /\ stdout' = Append(stdout,
                       "Extracting transcript for video ID: " \o r.val)
                /\ cpc' = "resolved"
                /\ UNCHANGED <<stderr, cli_exit>>
           ELSE /\ stderr' = Append(stderr,
                       "Traceback (most recent call last): KeyError: 'v'")
                /\ cli_exit' = Exited(1)
                /\ cpc' = "crashed"
                /\ UNCHANGED <<video_id, stdout>>
    /\ UNCHANGED <<args, api_calls, fetched, transcript, files>>

\* main, lines 92-93
CliFetch ==
    /\ UNCHANGED <<timeVars, rrVars, botVars>>
    /\ cpc = "resolved"
    /\ \E o \in FetchOutcomes :
          LET g == get_transcript(video_id, o)
          IN  /\ fetched' = o
              /\ api_calls' = Append(api_calls,
                     [video_id |-> video_id, languages |-> args.language])
              /\ transcript' = g.ret
              /\ stdout' = stdout \o g.msg
    /\ cpc' = "fetched"
    /\ UNCHANGED <<args, video_id, files, stderr, cli_exit>>

\* main, lines 95-107, and the normal end of the process
CliWrite ==
    /\ UNCHANGED <<timeVars, rrVars, botVars>>
    /\ cpc = "fetched"
    /\ IF Truthy(transcript)
       THEN LET content     == format_transcript(transcript.val, args.format)
                extension   == IF args.format # "text" THEN args.format ELSE "txt"
                output_file == IF args.output # None THEN args.output
                               ELSE "transcript." \o extension
            IN  \E w \in WriteOutcomes :
                   LET sv == save_transcript(content, output_file, w, files)
                   IN  /\ files' = sv.fs
                       /\ stdout' = Append(stdout, sv.msg)
       ELSE UNCHANGED <<files, stdout>>
    /\ cpc' = "done"
    /\ cli_exit' = Exited(0)
    /\ UNCHANGED <<args, video_id, api_calls, fetched, transcript, stderr>>

CliNext == CliResolve \/ CliFetch \/ CliWrite

(***************************************************************************)
(* format_time on its own: one subtitle entry's time line                  *)
(***************************************************************************)

TimeSamples ==
    {h * 3600000 + m * 60000 + sec * 1000 + ms :
        h \in {0, 1, 25}, m \in {0, 1, 59}, sec \in {0, 1, 5, 59},
        ms \in (0..MaxMs) \cup {500, 750, 999}}
    \cup {65500}

DurSamples == {0, 2250}

TimeIdle == t_start = 0 /\ t_dur = 0 /\ t_line = NoValue

TimeInit ==
    /\ t_start \in TimeSamples
    /\ t_dur \in DurSamples
    /\ t_line = NoValue

\* format_transcript, lines 42-49, for one entry
FormatEntry ==
    /\ UNCHANGED <<cliVars, rrVars, botVars>>
    /\ t_line = NoValue
    /\ t_line' = TimeLine(SecondsOf(t_start), SecondsOf(t_dur))
    /\ UNCHANGED <<t_start, t_dur>>

TimeNext == FormatEntry

(***************************************************************************)
(* RAG_chatbot.SimpleRAGChatbot.rerank_results                             *)
(***************************************************************************)

\* most candidates in a list handed to rerank_results
MaxCand == 3
\* largest k tried
MaxK == 4
\* most entries in a response of the reranking service
MaxResp == 2

Doc(i) == "chunk " \o DecStr(i)
Docs   == {Doc(i) : i \in 1..MaxCand}

\* the candidate lists tried: chunk 1 .. chunk n, for every n up to MaxCand
CandidateLists == {[i \in 1..n |-> Doc(i)] : n \in 0..MaxCand}

\* the sequences over S of at most n entries
RECURSIVE SeqsUpTo(_, _)
SeqsUpTo(S, n) ==
    IF n = 0 THEN {<<>>}
    ELSE SeqsUpTo(S, n - 1)
         \cup {Append(l, x) : l \in {y \in SeqsUpTo(S, n - 1) : Len(y) = n - 1},
                              x \in S}

\* What the reranking capability does on a call with n documents: the API
\* key is not in the environment; building the client raises; the request
\* raises; the answer is an object without results; or the answer lists
\* indices, which may be any integers.
RerankEnvs(n) ==
    {[kind |-> kd, idx |-> <<>>] :
        kd \in {"nokey", "ctor_raises", "call_raises", "no_results"}}
    \cup {[kind |-> "response", idx |-> ix] :
            ix \in SeqsUpTo((0 - (n + 1))..n, MaxResp)}

\* results[:k]
PySlice(results, k) ==
    IF k >= 0 THEN SubSeq(results, 1, Min(k, Len(results)))
    ELSE SubSeq(results, 1, Max(Len(results) + k, 0))

\* results[i] is defined for -len <= i < len, and counts from the end for i < 0
PyIndexOk(results, i) == (0 - Len(results)) <= i /\ i < Len(results)
PyIndex(results, i) ==
    IF i >= 0 THEN results[i + 1] ELSE results[Len(results) + i + 1]

\* lines 144-147: the documents the response's indices name, in its order
RECURSIVE RerankedDocs(_, _)
RerankedDocs(results, idx) ==
    IF idx = <<>> THEN <<>>
    ELSE <<PyIndex(results, Head(idx))>> \o RerankedDocs(results, Tail(idx))

Fallback(results, k, m, called) ==
    [ok |-> TRUE, val |-> PySlice(results, k), path |-> "fallback", msg |-> m,
     called |-> called]

\* rerank_results with the fallback giving back the whole list
rerank_results_unsliced(query, results, k, renv) ==
    IF renv.kind = "response"
         /\ \A j \in 1..Len(renv.idx) : PyIndexOk(results, renv.idx[j])
    THEN [ok |-> TRUE, val |-> RerankedDocs(results, renv.idx),
          path |-> "reranked", msg |-> "", called |-> TRUE]
    ELSE [ok |-> TRUE, val |-> results, path |-> "fallback", msg |-> "",
          called |-> renv.kind \notin {"nokey", "ctor_raises"}]

\* rerank_results reading the response's indices as counted from 1
rerank_results_from_one(query, results, k, renv) ==
    IF renv.kind = "response"
         /\ \A j \in 1..Len(renv.idx) : PyIndexOk(results, renv.idx[j] - 1)
    THEN [ok |-> TRUE,
          val |-> RerankedDocs(results, [j \in 1..Len(renv.idx) |-> renv.idx[j] - 1]),
          path |-> "reranked", msg |-> "", called |-> TRUE]
    ELSE Fallback(results, k, "", renv.kind \notin {"nokey", "ctor_raises"})

\* rerank_results(query, results, k) when the reranking capability does renv:
\* the value returned (ok: no exception leaves the method), the branch taken,
\* the message printed and whether the service was called
rerank_results(query, results, k, renv) ==
    IF renv.kind = "nokey"
    THEN Fallback(results, k, "Cohere API key not found. Skipping reranking.", FALSE)
    ELSE IF renv.kind = "ctor_raises"
    THEN Fallback(results, k, "Error in reranking: client", FALSE)
    ELSE IF renv.kind = "call_raises"
    THEN Fallback(results, k, "Error in reranking: request", TRUE)
    ELSE IF renv.kind = "no_results"
    THEN Fallback(results, k, "Error in reranking: no attribute results", TRUE)
    ELSE IF \E j \in 1..Len(renv.idx) : ~PyIndexOk(results, renv.idx[j])
    THEN Fallback(results, k, "Error in reranking: list index out of range", TRUE)
    ELSE [ok |-> TRUE, val |-> RerankedDocs(results, renv.idx),
          path |-> "reranked", msg |-> "", called |-> TRUE]

NoReturn == [ok |-> TRUE, val |-> <<>>, path |-> "not called", msg |-> "",
             called |-> FALSE]

RrIdle ==
    /\ rr_query = NoValue /\ rr_results = <<>> /\ rr_k = 0
    /\ rr_env = NoValue /\ rr_ret = NoReturn

RrInit ==
    /\ rr_query \in {"q1"}
    /\ rr_results \in CandidateLists
    /\ rr_k \in 0..MaxK
    /\ rr_env \in RerankEnvs(MaxCand)
    /\ rr_ret = NoReturn

RerankCall ==
    /\ UNCHANGED <<cliVars, timeVars, botVars>>
    /\ rr_ret.path = "not called"
    /\ rr_ret' = rerank_results(rr_query, rr_results, rr_k, rr_env)
    /\ UNCHANGED <<rr_query, rr_results, rr_k, rr_env>>

RrNext == RerankCall

(***************************************************************************)
(* RAG_chatbot.SimpleRAGChatbot: construction, load_document, chat         *)
(***************************************************************************)

\* most exchanges recorded in the conversation history: a call that would
\* record one more is not tried
MaxTurns == 2

\* rerank_results' default k, which chat relies on
RerankK == 15

NotReadyMsg == "I'm not ready yet. Please load a document first."
ApologyMsg  == "I encountered an error processing your request. Please try again."

Queries == {"q1", "q2"}
\* the texts the language model may produce; nothing keeps it from producing
\* the text of the apology
Generations == {"answer 1", ApologyMsg}

DocFiles == {"a.txt"}

Skipped == [st |-> "skipped", docs |-> <<>>]
SkippedRr == [kind |-> "skipped", idx |-> <<>>]
SkippedGen == [st |-> "skipped", text |-> ""]

NoEnv == [op |-> "none", arg |-> "", at |-> "", retr |-> Skipped,
          rr |-> SkippedRr, gen |-> SkippedGen, save |-> "skipped"]

\* what the capabilities may do during one chat call: the similarity
\* search raises, or it gives chunks; then the reranker does one of the
\* things rerank_results distinguishes; then the language model raises or
\* gives a text; then save_context raises or not
ChatRerankEnvs ==
    {[kind |-> kd, idx |-> <<>>] : kd \in {"nokey", "call_raises"}}
    \cup {[kind |-> "response", idx |-> <<1, 0>>]}

GenOutcomes ==
    {[gen |-> [st |-> "fail", text |-> ""], save |-> "skipped"]}
    \cup {[gen |-> [st |-> "ok", text |-> g], save |-> sv] :
            g \in Generations, sv \in {"ok", "fail"}}

ChatEnvs ==
    {[retr |-> [st |-> "fail", docs |-> <<>>], rr |-> SkippedRr,
      gen |-> SkippedGen, save |-> "skipped"]}
    \cup {[retr |-> [st |-> "ok", docs |-> <<Doc(2), Doc(1)>>], rr |-> r,
           gen |-> g.gen, save |-> g.save] :
            r \in ChatRerankEnvs, g \in GenOutcomes}

\* ConversationBufferMemory.save_context: one human and one ai message
SaveContext(msgs, q, r) ==
    msgs \o <<[type |-> "human", content |-> q], [type |-> "ai", content |-> r]>>

\* chat recording the user's turn before the answer is generated
chat_eager(q, e) ==
    LET h1 == Append(history, [type |-> "human", content |-> q])
        ev == [NoEnv EXCEPT !.op = "chat", !.arg = q, !.retr = e.retr,
                            !.rr = e.rr, !.gen = e.gen, !.save = e.save]
    IN  IF vectorstore = None
        THEN [response |-> NotReadyMsg, history |-> history, calls |-> <<>>,
              env |-> [NoEnv EXCEPT !.op = "chat", !.arg = q]]
        ELSE IF e.retr.st = "fail" \/ e.gen.st = "fail" \/ e.save = "fail"
        THEN [response |-> ApologyMsg, history |-> h1,
              calls |-> <<"similarity_search">>, env |-> ev]
        ELSE [response |-> e.gen.text,
              history |-> Append(h1, [type |-> "ai", content |-> e.gen.text]),
              calls |-> <<"similarity_search", "predict", "save_context">>,
              env |-> ev]

\* chat without the guard of lines 156-157
chat_unguarded(q, e) ==
    IF e.retr.st = "fail" \/ e.gen.st = "fail" \/ e.save = "fail"
    THEN [response |-> ApologyMsg, history |-> history,
          calls |-> <<"similarity_search">>,
          env |-> [NoEnv EXCEPT !.op = "chat", !.arg = q, !.retr = e.retr,
                                !.rr = e.rr, !.gen = e.gen, !.save = e.save]]
    ELSE [response |-> e.gen.text,
          history |-> SaveContext(history, q, e.gen.text),
          calls |-> <<"similarity_search", "predict", "save_context">>,
          env |-> [NoEnv EXCEPT !.op = "chat", !.arg = q, !.retr = e.retr,
                                !.rr = e.rr, !.gen = e.gen, !.save = e.save]]

\* chat(user_input) when the capabilities do e: the value returned, the
\* history after the call, the capabilities it invoked, in order, and what
\* each of them did (env).  An exception of the search, of the language model
\* or of save_context is caught at line 209; rerank_results catches its own.
\* save_context raises, if it does, before it adds a message.
chat(q, e) ==
    IF vectorstore = None
    THEN [response |-> NotReadyMsg, history |-> history, calls |-> <<>>,
          env |-> [NoEnv EXCEPT !.op = "chat", !.arg = q]]
    ELSE IF e.retr.st = "fail"
    THEN [response |-> ApologyMsg, history |-> history,
          calls |-> <<"similarity_search">>,
          env |-> [NoEnv EXCEPT !.op = "chat", !.arg = q, !.retr = e.retr]]
    ELSE
      LET rr  == rerank_results(q, e.retr.docs, RerankK, e.rr)
          c1  == <<"similarity_search">>
                   \o (IF rr.called THEN <<"rerank">> ELSE <<>>) \o <<"predict">>
          ev  == [NoEnv EXCEPT !.op = "chat", !.arg = q, !.retr = e.retr,
                               !.rr = e.rr, !.gen = e.gen]
      IN  IF e.gen.st = "fail"
          THEN [response |-> ApologyMsg, history |-> history, calls |-> c1,
                env |-> ev]
          ELSE IF e.save = "fail"
          THEN [response |-> ApologyMsg, history |-> history,
                calls |-> Append(c1, "save_context"),
                env |-> [ev EXCEPT !.save = "fail"]]
          ELSE [response |-> e.gen.text,
                history |-> SaveContext(history, q, e.gen.text),
                calls |-> Append(c1, "save_context"),
                env |-> [ev EXCEPT !.save = "ok"]]

\* where load_document may fail: reading the file, embedding the chunks,
\* saving the index, building the chain; or nowhere
LoadFailures == {"read", "embed", "save", "chain", "none"}

\* load_document(filepath) when it fails at f (lines 94-121): the value
\* returned and self.vectorstore, self.qa_chain and the index directory after
\* it.  self.vectorstore is assigned at line 109, before the index is saved;
\* a save that fails may leave the directory as it was or partly written.
load_document(filepath, f, partial) ==
    IF f \in {"read", "embed"}
    THEN [ret |-> FALSE, vectorstore |-> vectorstore, qa_chain |-> qa_chain,
          disk |-> disk]
    ELSE IF f = "save"
    THEN [ret |-> FALSE, vectorstore |-> "index of " \o filepath,
          qa_chain |-> qa_chain,
          disk |-> IF partial THEN "corrupt" ELSE disk]
    ELSE IF f = "chain"
    THEN [ret |-> FALSE, vectorstore |-> "index of " \o filepath,
          qa_chain |-> qa_chain, disk |-> "saved"]
    ELSE [ret |-> TRUE, vectorstore |-> "index of " \o filepath,
          qa_chain |-> "chain", disk |-> "saved"]

\* where _initialize_components may fail: building the language model,
\* loading the saved index, building the chain; or nowhere
InitFailures == {"llm", "load", "chain", "none"}

\* the index directory exists and is not empty (line 42)
IndexOnDisk == disk \in {"saved", "corrupt"}

\* __init__ / _initialize_components when it fails at f: exited tells that
\* sys.exit(1) was called (line 51).
initialize(f) ==
    IF f = "llm"
    THEN [exited |-> TRUE, vectorstore |-> None, qa_chain |-> None]
    ELSE IF ~IndexOnDisk
    THEN [exited |-> FALSE, vectorstore |-> None, qa_chain |-> None]
    ELSE IF f = "load"
    THEN [exited |-> TRUE, vectorstore |-> None, qa_chain |-> None]
    ELSE IF f = "chain"
    THEN [exited |-> TRUE, vectorstore |-> "index from disk", qa_chain |-> None]
    ELSE [exited |-> FALSE, vectorstore |-> "index from disk", qa_chain |-> "chain"]

BotIdle ==
    /\ pc = "idle" /\ vectorstore = None /\ qa_chain = None /\ disk = "absent"
    /\ history = <<>> /\ user_input = NoValue /\ response = NoValue
    /\ success = FALSE /\ env = NoEnv /\ calls = <<>>
    /\ arg_file = NoValue /\ printed = <<>> /\ exit_code = Running

\* before SimpleRAGChatbot() is called
BotInit ==
    /\ pc = "new" /\ vectorstore = None /\ qa_chain = None
    /\ disk \in {"absent", "saved", "corrupt"}
    /\ history = <<>> /\ user_input = NoValue /\ response = NoValue
    /\ success = FALSE /\ env = NoEnv /\ calls = <<>>
    /\ arg_file = NoValue /\ printed = <<>> /\ exit_code = Running

\* SimpleRAGChatbot(): to "ready", or out of the process
Construct(next_pc) ==
    /\ UNCHANGED <<cliVars, timeVars, rrVars>>
    /\ pc = "new"
    /\ \E f \in InitFailures :
          LET r == initialize(f)
          IN  /\ vectorstore' = r.vectorstore
              /\ qa_chain' = r.qa_chain
              /\ env' = [NoEnv EXCEPT !.op = "__init__", !.at = f]
              /\ IF r.exited
                 THEN pc' = "exited" /\ exit_code' = Exited(1)
                 ELSE pc' = next_pc /\ exit_code' = exit_code
    /\ UNCHANGED <<disk, history, user_input, response, success, calls,
                   arg_file, printed>>

\* a call of load_document on the object
LoadDocument ==
    /\ UNCHANGED <<cliVars, timeVars, rrVars>>
    /\ pc = "ready"
    /\ \E file \in DocFiles, f \in LoadFailures, partial \in BOOLEAN :
          LET r == load_document(file, f, partial)
          IN  /\ success' = r.ret
              /\ vectorstore' = r.vectorstore
              /\ qa_chain' = r.qa_chain
              /\ disk' = r.disk
              /\ env' = [NoEnv EXCEPT !.op = "load_document", !.arg = file, !.at = f]
    /\ UNCHANGED <<pc, history, user_input, response, calls, arg_file,
                   printed, exit_code>>

\* a call of chat on the object
Chat ==
    /\ UNCHANGED <<cliVars, timeVars, rrVars>>
    /\ pc = "ready"
    /\ \E q \in Queries, e \in ChatEnvs :
          LET r == chat(q, e)
          IN  /\ Len(r.history) <= 2 * MaxTurns
              /\ user_input' = q
              /\ response' = r.response
              /\ history' = r.history
              /\ calls' = r.calls
              /\ env' = r.env
    /\ UNCHANGED <<pc, vectorstore, qa_chain, disk, success, arg_file, printed,
                   exit_code>>

BotNext == Construct("ready") \/ LoadDocument \/ Chat

(***************************************************************************)
(* RAG_chatbot.main                                                        *)
(***************************************************************************)

UpperLetters == "ABCDEFGHIJKLMNOPQRSTUVWXYZ"
LowerLetters == "abcdefghijklmnopqrstuvwxyz"

\* str.lower() leaving the letters as they are
LowerKept(s) == s

LowerChar(c) ==
    IF \E i \in 1..Len(UpperLetters) : CharAt(UpperLetters, i) = c
    THEN LET i == CHOOSE j \in 1..Len(UpperLetters) : CharAt(UpperLetters, j) = c
         IN  CharAt(LowerLetters, i)
    ELSE c

\* str.lower()
RECURSIVE Lower(_)
Lower(s) ==
    IF s = "" THEN "" ELSE LowerChar(CharAt(s, 1)) \o Lower(SubSeq(s, 2, Len(s)))

\* str.endswith(suffix)
EndsWith(s, suffix) ==
    Len(s) >= Len(suffix) /\ SubSeq(s, Len(s) - Len(suffix) + 1, Len(s)) = suffix

\* the files that exist, and the values of --file tried
ExistingFiles == DocFiles \cup {"notes.md"}
FileArgs      == ExistingFiles \cup {"missing.txt"}

\* the lines typed at the prompt
InputLines == {"q1", " exit", "exit", "EXIT", "eXiT"}

\* input(): a line, or EOFError at the end of the input
Inputs ==
    {[eof |-> FALSE, line |-> l] : l \in InputLines}
    \cup {[eof |-> TRUE, line |-> ""]}

MainInit ==
    /\ pc = "start" /\ vectorstore = None /\ qa_chain = None
    /\ disk \in {"absent", "saved", "corrupt"}
    /\ history = <<>> /\ user_input = NoValue /\ response = NoValue
    /\ success = FALSE /\ env = NoEnv /\ calls = <<>>
    /\ arg_file \in FileArgs /\ printed = <<>> /\ exit_code = Running

\* lines 223-229
MainArgs ==
    /\ UNCHANGED <<cliVars, timeVars, rrVars>>
    /\ pc = "start"
    /\ IF arg_file \notin ExistingFiles
       THEN /\ printed' = <<"Error: File " \o arg_file \o " does not exist.">>
            /\ pc' = "exited" /\ exit_code' = Exited(1)
       ELSE IF ~EndsWith(arg_file, ".txt")
       THEN /\ printed' = <<"Error: File " \o arg_file \o " is not a .txt file. "
                               \o "Please provide a valid text file.">>
            /\ pc' = "exited" /\ exit_code' = Exited(1)
       ELSE /\ printed' = <<>>
            /\ pc' = "new" /\ exit_code' = exit_code
    /\ UNCHANGED <<vectorstore, qa_chain, disk, history, user_input, response,
                   success, env, calls, arg_file>>

\* lines 235-241
MainLoad ==
    /\ UNCHANGED <<cliVars, timeVars, rrVars>>
    /\ pc = "built"
    /\ \E f \in LoadFailures, partial \in BOOLEAN :
          LET r == load_document(arg_file, f, partial)
          IN  /\ success' = r.ret
              /\ vectorstore' = r.vectorstore
              /\ qa_chain' = r.qa_chain
              /\ disk' = r.disk
              /\ env' = [NoEnv EXCEPT !.op = "load_document", !.arg = arg_file,
                                      !.at = f]
              /\ IF r.ret
                 THEN /\ printed' = <<"Successfully loaded " \o arg_file \o " for RAG",
                             "Simple RAG Chatbot is ready! Type 'exit' to quit.">>
                      /\ pc' = "loop" /\ exit_code' = exit_code
                 ELSE /\ printed' = <<"Failed to load the document. Exiting...">>
                      /\ pc' = "exited" /\ exit_code' = Exited(1)
    /\ UNCHANGED <<history, user_input, response, calls, arg_file>>

\* one turn of the loop, lines 243-251.  The EOFError of input() is not
\* caught: the interpreter prints the traceback and exits with status 1.
\* After "exit" main returns and the process ends with status 0.
MainTurn ==
    /\ UNCHANGED <<cliVars, timeVars, rrVars>>
    /\ pc = "loop"
    /\ \E i \in Inputs :
          IF i.eof
          THEN /\ printed' = <<"Traceback (most recent call last): EOFError">>
               /\ env' = [NoEnv EXCEPT !.op = "input", !.at = "EOFError"]
               /\ pc' = "exited" /\ exit_code' = Exited(1)
               /\ calls' = <<>>
               /\ UNCHANGED <<user_input, response, history>>
          ELSE IF Lower(i.line) = "exit"
          THEN /\ user_input' = i.line
               /\ printed' = <<"Goodbye!">>
               /\ env' = [NoEnv EXCEPT !.op = "input", !.arg = i.line]
               /\ pc' = "exited" /\ exit_code' = Exited(0)
               /\ calls' = <<>>
               /\ UNCHANGED <<response, history>>
          ELSE /\ \E e \in ChatEnvs :
                     LET r == chat(i.line, e)
                     IN  /\ Len(r.history) <= 2 * MaxTurns
                         /\ user_input' = i.line
                         /\ response' = r.response
                         /\ history' = r.history
                         /\ calls' = r.calls
                         /\ env' = r.env
                         /\ printed' = <<"\nChatbot: " \o r.response>>
               /\ UNCHANGED <<pc, exit_code>>
    /\ UNCHANGED <<vectorstore, qa_chain, disk, success, arg_file>>

MainNext == MainArgs \/ Construct("built") \/ MainLoad \/ MainTurn

(***************************************************************************)
(* The specifications                                                      *)
(***************************************************************************)

InitCli    == CliInit /\ TimeIdle /\ RrIdle /\ BotIdle
InitTime   == TimeInit /\ CliIdle /\ RrIdle /\ BotIdle
InitRerank == RrInit /\ CliIdle /\ TimeIdle /\ BotIdle
InitBot    == BotInit /\ CliIdle /\ TimeIdle /\ RrIdle
InitMain   == MainInit /\ CliIdle /\ TimeIdle /\ RrIdle

SpecCli    == InitCli /\ [][CliNext]_vars
SpecTime   == InitTime /\ [][TimeNext]_vars
SpecRerank == InitRerank /\ [][RrNext]_vars
SpecBot    == InitBot /\ [][BotNext]_vars
SpecMain   == InitMain /\ [][MainNext]_vars

(***************************************************************************)
(* Properties of rerank_results (SpecRerank)                               *)
(***************************************************************************)

RrReturned == rr_ret.path # "not called"

\* the first topN candidates, in the retriever's order
FirstTopN == [i \in 1..Min(rr_k, Len(rr_results)) |-> rr_results[i]]

\* an index of the response that Python's list indexing rejects
BadIndex(i) == i >= Len(rr_results) \/ i < 0 - Len(rr_results)

\* the reranking capability fails: no credential, the client or the request
\* raises, the response has no results, or it names an index out of range
CapabilityFails ==
    \/ rr_env.kind \in {"nokey", "ctor_raises", "call_raises", "no_results"}
    \/ /\ rr_env.kind = "response"
       /\ \E j \in 1..Len(rr_env.idx) : BadIndex(rr_env.idx[j])

\* C2: whenever the reranking capability fails in any way, rerank_results
\* returns exactly the first topN candidates, in the retriever's order and
\* unmodified, and no exception leaves the method.
RerankFallback ==
    RrReturned /\ CapabilityFails => rr_ret.ok /\ rr_ret.val = FirstTopN

\* a call in which the response named an index out of range and the fallback
\* cut a list of three candidates down to two
RerankFallbackSeen ==
    /\ RrReturned /\ CapabilityFails /\ rr_env.kind = "response"
    /\ Len(rr_results) = 3 /\ rr_k = 2 /\ Len(rr_ret.val) = 2

\* the candidate a response's index i names: results[i] of Python
Named(i) == IF i >= 0 THEN rr_results[i + 1] ELSE rr_results[Len(rr_results) + i + 1]

Candidates == {rr_results[i] : i \in 1..Len(rr_results)}

\* C9, as amended: on both paths every element returned is a candidate; on
\* the fallback path the length is exactly min(topN, len(candidates)); on the
\* success path the result has one element for each entry of the service's
\* response, the candidate that entry's index names, so that its length is
\* the number of entries the service sent.
RerankSubset ==
    RrReturned =>
        /\ \A j \in 1..Len(rr_ret.val) : rr_ret.val[j] \in Candidates
        /\ CapabilityFails => Len(rr_ret.val) = Min(rr_k, Len(rr_results))
        /\ ~CapabilityFails =>
              /\ Len(rr_ret.val) = Len(rr_env.idx)
              /\ \A j \in 1..Len(rr_env.idx) : rr_ret.val[j] = Named(rr_env.idx[j])

\* C9, as stated: on both paths the length is exactly min(topN,
\* len(candidates)) and every element is a candidate.
RerankLengthExact ==
    RrReturned =>
        /\ Len(rr_ret.val) = Min(rr_k, Len(rr_results))
        /\ \A j \in 1..Len(rr_ret.val) : rr_ret.val[j] \in Candidates

\* a successful reranking whose result is shorter than min(topN, len)
RerankShortSeen ==
    /\ RrReturned /\ ~CapabilityFails
    /\ Len(rr_ret.val) < Min(rr_k, Len(rr_results))
    /\ rr_ret.val # <<>>

(***************************************************************************)
(* Properties of youtube_transcript.main (SpecCli)                         *)
(***************************************************************************)

IsShortLink(u) == Contains(u, "youtu.be")
IsFullLink(u)  == ~IsShortLink(u) /\ Contains(u, "youtube.com/watch")

\* what follows the last '/' of u (all of u when it has none)
AfterLastSlash(u) ==
    LET at == {i \in 1..Len(u) : CharAt(u, i) = "/"}
    IN  IF at = {} THEN u
        ELSE SubSeq(u, (CHOOSE i \in at : \A j \in at : j <= i) + 1, Len(u))

\* t without its query string: what precedes its first '?'
BeforeQuery(t) ==
    LET at == {i \in 1..Len(t) : CharAt(t, i) = "?"}
    IN  IF at = {} THEN t
        ELSE SubSeq(t, 1, (CHOOSE i \in at : \A j \in at : i <= j) - 1)

\* the values of the v parameter in the query string of u
ValuesOfV(u) == ParseQs(UrlQuery(u), "v")

\* C6: the resolver applies three cases in this order: an input with the
\* short-link marker gives what follows its last '/' without the query
\* string; otherwise an input with the full-link marker gives the first value
\* of its v parameter (and resolution stops only when there is none);
\* otherwise the input itself.  The three example inputs give abc123, xyz789
\* and xyz789.
ResolveCases ==
    /\ cpc \notin {"start", "crashed"} =>
          /\ IsShortLink(args.url) =>
                video_id = BeforeQuery(AfterLastSlash(args.url))
          /\ IsFullLink(args.url) =>
                ValuesOfV(args.url) # <<>> /\ video_id = ValuesOfV(args.url)[1]
          /\ ~IsShortLink(args.url) /\ ~IsFullLink(args.url) =>
                video_id = args.url
          /\ args.url = "https://youtu.be/abc123?t=5" => video_id = "abc123"
          /\ args.url = "https://www.youtube.com/watch?v=xyz789&list=PL1" =>
                video_id = "xyz789"
          /\ args.url = "xyz789" => video_id = "xyz789"
    /\ cpc = "crashed" => IsFullLink(args.url) /\ ValuesOfV(args.url) = <<>>

\* an input with both markers and several '/' was resolved by the first case
ResolveOrderSeen ==
    /\ cpc = "resolved"
    /\ Contains(args.url, "youtu.be") /\ Contains(args.url, "youtube.com/watch")
    /\ args.url = "https://www.youtube.com/watch?u=youtu.be/abc123"
    /\ video_id = "abc123"

\* no file has been created, truncated or written since the start
FilesUntouched ==
    files \in {[p \in Paths |-> Absent], [p \in Paths |-> OldContent]}

FetchFailed == cpc \in {"fetched", "done"} /\ fetched.err # ""

\* C7: whenever the caption fetch fails (no transcript in the languages
\* asked for, transcripts disabled, any other exception), get_transcript
\* gives None after printing at least one message, the process does not
\* crash (it ends with status 0) and no output file is created or truncated;
\* a file is written only after a fetch that gave caption entries.
FetchFailureSkips ==
    /\ FetchFailed =>
          /\ transcript = NoList
          /\ Len(stdout) >= 2
          /\ stderr = <<>>
          /\ cli_exit = IF cpc = "done" THEN Exited(0) ELSE Running
          /\ FilesUntouched
    /\ ~FilesUntouched =>
          /\ fetched.err = "" /\ fetched.entries # <<>>
          /\ transcript = ListOf(fetched.entries)

\* a run that ended after a fetch that raised some other exception, over
\* files that existed before
FetchFailureSeen ==
    /\ cpc = "done" /\ fetched.err = "Exception"
    /\ files = [p \in Paths |-> OldContent]

\* the input is a full link whose query string has no v parameter
FullLinkWithoutV == IsFullLink(args.url) /\ ValuesOfV(args.url) = <<>>

\* C5: for a full link without a v parameter the missing id is reported, no
\* captioning call is made, no file is written and the process ends without
\* error: no uncaught exception, exit status 0.
MissingIdReported ==
    cpc # "start" /\ FullLinkWithoutV =>
        /\ api_calls = <<>>
        /\ FilesUntouched
        /\ stderr = <<>>
        /\ cli_exit \in {Running, Exited(0)}

(***************************************************************************)
(* Properties of format_time (SpecTime)                                    *)
(***************************************************************************)

\* HH:MM:SS,mmm of a whole number of milliseconds, in exact arithmetic: whole
\* hours without wrap, minutes mod 60, seconds mod 60, the milliseconds left
ExactTime(ms) ==
    Fmt(ms \div 3600000, 2) \o ":" \o Fmt((ms \div 60000) % 60, 2) \o ":"
        \o Fmt((ms \div 1000) % 60, 2) \o "," \o Fmt(ms % 1000, 3)

\* C8: for every time of a whole number of milliseconds format_time renders
\* hours, minutes, seconds and the remaining milliseconds exactly, and an
\* entry's line is format_time(start) --> format_time(start + duration); for
\* start 65.5 and duration 2.25 it is 00:01:05,500 --> 00:01:07,750.
TimeLineExact ==
    t_line # NoValue =>
        /\ t_line = ExactTime(t_start) \o " --> " \o ExactTime(t_start + t_dur)
        /\ t_start = 65500 /\ t_dur = 2250 =>
              t_line = "00:01:05,500 --> 00:01:07,750"

(***************************************************************************)
(* Properties of the SimpleRAGChatbot object (SpecBot)                     *)
(***************************************************************************)

\* the turns alternate User then Assistant, starting with User
AlternatingHistory ==
    /\ Len(history) % 2 = 0
    /\ \A i \in 1..Len(history) :
          history[i].type = IF i % 2 = 1 THEN "human" ELSE "ai"

\* this step is a call of chat in state Ready
ReadyChatStep == env'.op = "chat" /\ vectorstore # None

\* in this call the search, the language model or save_context failed
StepFailed ==
    env'.retr.st = "fail" \/ env'.gen.st = "fail" \/ env'.save = "fail"

UserTurn(q)      == [type |-> "human", content |-> q]
AssistantTurn(r) == [type |-> "ai", content |-> r]

\* C1: after any sequence of chat calls, whatever the search, the reranker,
\* the language model and save_context do, the history has even length and
\* alternates User then Assistant in call order: a call that returns the
\* generated text (no step but the reranker failed) has appended one User
\* turn, the query, and one Assistant turn, the response; a call that returns
\* the apology (the search, the language model or save_context failed) has
\* left the history as it was.
HistoryPairs ==
    /\ []AlternatingHistory
    /\ [][ReadyChatStep =>
            /\ StepFailed => response' = ApologyMsg /\ history' = history
            /\ ~StepFailed =>
                  /\ env'.gen.st = "ok" /\ response' = env'.gen.text
                  /\ history' = history \o <<UserTurn(user_input'),
                                             AssistantTurn(response')>>]_vars

\* after two exchanges were recorded, a call in which the reranker's request
\* raised and then the language model failed left the history as it was
HistoryKeptSeen ==
    /\ Len(history) = 4
    /\ history[1].content # history[3].content
    /\ env.op = "chat" /\ env.rr.kind = "call_raises" /\ env.gen.st = "fail"
    /\ response = ApologyMsg

\* C4: a call of chat while no index is loaded returns the "not ready"
\* message and changes nothing: not the history, the index, the chain or the
\* saved index, and no capability is invoked.
NotReadyNoEffect ==
    [][env'.op = "chat" /\ vectorstore = None =>
            /\ response' = "I'm not ready yet. Please load a document first."
            /\ history' = history
            /\ vectorstore' = None /\ qa_chain' = qa_chain /\ disk' = disk
            /\ calls' = <<>>]_vars

\* chat was called on an object that holds no index although a build had
\* been tried and had failed
NotReadySeen ==
    /\ pc = "ready" /\ vectorstore = None
    /\ env.op = "chat" /\ response = NotReadyMsg /\ calls = <<>>

\* C3: readiness (an index is held) changes from Uninitialized to Ready only
\* by a load_document that returns True or by a load of the saved index at
\* construction, and never back; a load_document that returns False,
\* whichever of its steps failed, leaves an Uninitialized object
\* Uninitialized.
ReadyOnce ==
    [][/\ vectorstore # None => vectorstore' # None
       /\ vectorstore = None /\ vectorstore' # None =>
             \/ env'.op = "load_document" /\ success'
             \/ env'.op = "__init__" /\ disk \in {"saved", "corrupt"}
       /\ env'.op = "load_document" /\ ~success' /\ vectorstore = None =>
             vectorstore' = None]_vars

(***************************************************************************)
(* Properties of RAG_chatbot.main (SpecMain)                               *)
(***************************************************************************)

\* the word exit in any letter case
AnyCaseExit ==
    {a \o b \o c \o d : a \in {"e", "E"}, b \in {"x", "X"}, c \in {"i", "I"},
                        d \in {"t", "T"}}

\* a turn of the loop that answered a line: one response printed, the loop
\* goes on
Answered ==
    /\ env'.op = "chat" /\ user_input' \notin AnyCaseExit
    /\ response' \in Generations \cup {ApologyMsg}
    /\ StepFailed => response' = ApologyMsg
    /\ printed' = <<"\nChatbot: " \o response'>>
    /\ pc' = "loop" /\ exit_code' = Running

\* a turn that read exit: the process ends with exit code 0, chat not called
Left ==
    /\ env'.op = "input" /\ env'.at = "" /\ user_input' \in AnyCaseExit
    /\ calls' = <<>> /\ history' = history /\ response' = response
    /\ pc' = "exited" /\ exit_code' = Exited(0)

\* a turn that met the end of the input: the process ends with status 1
InputEnded ==
    /\ env'.op = "input" /\ env'.at = "EOFError"
    /\ calls' = <<>> /\ history' = history /\ response' = response
    /\ user_input' = user_input
    /\ pc' = "exited" /\ exit_code' = Exited(1)

\* C10, as amended: once the loop has started no failure of the search, the
\* reranker or the language model ends it: every line other than exit gets
\* one response printed (the generated text or the apology) and the next
\* line is read; the loop ends when a line is exit in any letter case, with
\* exit code 0 and no call of chat for it, and otherwise only at the end of
\* the input, where the EOFError of input() ends the process with status 1.
LoopGoesOn ==
    [][pc = "loop" => Answered \/ Left \/ InputEnded]_vars

\* C10, as stated: the loop ends only when a line is exit.
LoopEndsOnExitOnly ==
    [][pc = "loop" => Answered \/ Left]_vars

\* the loop goes on after a turn in which the search gave chunks, the
\* reranker's request raised and the language model failed
LoopSurvivedSeen ==
    /\ pc = "loop" /\ env.op = "chat"
    /\ env.rr.kind = "call_raises" /\ env.gen.st = "fail"
    /\ printed = <<"\nChatbot: " \o ApologyMsg>>
    /\ Len(history) = 2

=============================================================================
